---- MODULE Spec2Model ----
(***************************************************************************)
(* Model of the guarded chat relay: backend/app/main.py (chat_endpoint),   *)
(* backend/app/utils/guardrails.py, backend/app/schemas.py                 *)
(* (compute_age_in_years), backend/app/services/azure_llm.py and           *)
(* backend/app/services/stravito_client.py (get_message, extract_sources). *)
(*                                                                         *)
(* Representation.                                                         *)
(*  - A Python str is a sequence of one-element strings.  Texts that the   *)
(*    code inspects character by character (title, description, type,      *)
(*    market) are spelled one character per element; fixed sentences and   *)
(*    opaque answers are a single element.  Concatenation is \o.           *)
(*  - A JSON / Python value is a record [k, v]: k is "absent" (key not in  *)
(*    the dict), "null" (None), "str" (v is the text) or "num" (a non-zero *)
(*    number, v unused).                                                   *)
(*  - A published_at value is a record [k, fmt, days]; for k = "str", fmt  *)
(*    says what the text looks like and days is the value of               *)
(*    (utcnow() - published).days when the code evaluates it.              *)
(*  - age_in_years is an integer number of hundredths of a year, or NoAge. *)
(***************************************************************************)
EXTENDS Integers, Sequences, FiniteSets, TLC

VARIABLES settings, request, pc, conversation_id, message_id, message_payload,
          message_text, retry_count, response_data, guardrails, catalogue,
          final_text, response, calls, polls

vars == <<settings, request, pc, conversation_id, message_id, message_payload,
          message_text, retry_count, response_data, guardrails, catalogue,
          final_text, response, calls, polls>>

(***************************************************************************)
(* Bounds of the model.                                                    *)
(***************************************************************************)
MaxSources == 3
MaxRetries == 2

(***************************************************************************)
(* Python values.                                                          *)
(***************************************************************************)
Absent == [k |-> "absent", v |-> <<>>]
Null == [k |-> "null", v |-> <<>>]
Num == [k |-> "num", v |-> <<>>]
Str(s) == [k |-> "str", v |-> s]
List(s) == [k |-> "list", v |-> s]

\* Optional values of the model's own variables.
None == [some |-> FALSE]
Some(x) == [some |-> TRUE, v |-> x]

\* bool(x) for the values above.
Truthy(x) == (x.k \in {"str", "list"} /\ x.v # <<>>) \/ x.k = "num"

\* d.get(key): an absent key reads as None.
Get(x) == IF x.k = "absent" THEN Null ELSE x

\* d.get(key, default): only an absent key reads as the default.
GetDefault(x, default) == IF x.k = "absent" THEN Str(default) ELSE x

\* (x or default) for a text default.
OrText(x, default) == IF Truthy(x) THEN x ELSE Str(default)

UpperChars == <<"A", "B", "C", "D", "E", "F", "G", "H", "I", "J", "K", "L", "M",
                "N", "O", "P", "Q", "R", "S", "T", "U", "V", "W", "X", "Y", "Z">>
LowerChars == <<"a", "b", "c", "d", "e", "f", "g", "h", "i", "j", "k", "l", "m",
                "n", "o", "p", "q", "r", "s", "t", "u", "v", "w", "x", "y", "z">>

LowerChar(c) ==
    IF \E i \in DOMAIN UpperChars : UpperChars[i] = c
    THEN LowerChars[CHOOSE i \in DOMAIN UpperChars : UpperChars[i] = c]
    ELSE c

\* str.lower()
Lower(s) == [i \in DOMAIN s |-> LowerChar(s[i])]

UpperChar(c) ==
    IF \E i \in DOMAIN LowerChars : LowerChars[i] = c
    THEN UpperChars[CHOOSE i \in DOMAIN LowerChars : LowerChars[i] = c]
    ELSE c

\* str.upper()
Upper(s) == [i \in DOMAIN s |-> UpperChar(s[i])]

\* keyword in text
Contains(text, keyword) ==
    \E i \in 0..(Len(text) - Len(keyword)) :
        SubSeq(text, i + 1, i + Len(keyword)) = keyword

IsSpace(c) == c \in {" ", "\n", "\t"}

RECURSIVE LStrip(_)
LStrip(s) == IF s # <<>> /\ IsSpace(Head(s)) THEN LStrip(Tail(s)) ELSE s

RECURSIVE RStrip(_)
RStrip(s) ==
    IF s # <<>> /\ IsSpace(s[Len(s)]) THEN RStrip(SubSeq(s, 1, Len(s) - 1)) ELSE s

\* str.strip()
Strip(s) == RStrip(LStrip(s))

\* sep.join(parts)
RECURSIVE Join(_, _)
Join(parts, sep) ==
    IF parts = <<>> THEN <<>>
    ELSE IF Len(parts) = 1 THEN parts[1]
    ELSE parts[1] \o sep \o Join(Tail(parts), sep)

\* The sequences over S of length at most n.
SeqUpTo(S, n) == UNION {[1..m -> S] : m \in 0..n}

\* [x for x in s if Test(x)]
RECURSIVE SelectIdx(_, _)
SelectIdx(s, keep) ==
    IF s = <<>> THEN <<>>
    ELSE IF keep[1] THEN <<s[1]>> \o SelectIdx(Tail(s), Tail(keep))
    ELSE SelectIdx(Tail(s), Tail(keep))

(***************************************************************************)
(* schemas.py                                                              *)
(***************************************************************************)
NoAge == [defined |-> FALSE, v |-> 0]
Age(n) == [defined |-> TRUE, v |-> n]

NoPub == [k |-> "null", fmt |-> "", days |-> 0]

\* src.get("published_at")
PubGet(p) == IF p.k = "absent" THEN NoPub ELSE p

\* bool(published_at)
PubTruthy(p) == (p.k = "str" /\ p.fmt # "empty") \/ p.k = "num"

\* published_at.replace("Z", "+00:00"): a trailing Z becomes a UTC offset.
ReplaceZ(fmt) == IF fmt = "isoZ" THEN "isoOffset" ELSE fmt

\* datetime.fromisoformat(text) returns (does not raise ValueError).
FromIsoFormatParses(fmt) == fmt \in {"iso", "isoOffset"}

\* round(days / 365.25, 2), in hundredths of a year.  days * 100 / 365.25 is
\* days * 400 / 1461, which is never halfway between two integers (1461 is
\* odd), so rounding to nearest is all there is to it.
RoundYears(days) == (2 * 400 * days + 1461) \div (2 * 1461)

\* compute_age_in_years raises: str.replace on a value that is not a str is
\* an AttributeError, which the except ValueError clause does not catch.
AgeRaises(p) == PubTruthy(p) /\ p.k # "str"

\* compute_age_in_years, when it returns.
compute_age_in_years(p) ==
    IF ~PubTruthy(p) THEN NoAge
    ELSE IF ~FromIsoFormatParses(ReplaceZ(p.fmt)) THEN NoAge
    ELSE Age(RoundYears(p.days))

(***************************************************************************)
(* utils/guardrails.py                                                     *)
(***************************************************************************)
\* Variant: the field list without timeframe.
CRITICAL_PROMPT_FIELDS_NoTimeframe == <<"market", "category">>

CRITICAL_PROMPT_FIELDS == <<"market", "category", "timeframe">>

EMPIRICAL_KEYWORDS ==
    { <<"f", "o", "r", "e", "c", "a", "s", "t">>,
      <<"q", "u", "a", "n", "t">>,
      <<"q", "u", "a", "n", "t", "i", "t", "a", "t", "i", "v", "e">>,
      <<"s", "u", "r", "v", "e", "y">>,
      <<"p", "a", "n", "e", "l">>,
      <<"s", "a", "l", "e", "s">> }

CONTEXTUAL_KEYWORDS ==
    { <<"p", "o", "v">>,
      <<"p", "r", "e", "s", "e", "n", "t", "a", "t", "i", "o", "n">>,
      <<"o", "v", "e", "r", "v", "i", "e", "w">>,
      <<"b", "r", "a", "n", "d">>,
      <<"s", "t", "r", "a", "t", "e", "g", "y">> }

PRIORITY_MARKETS ==
    << <<"u", "n", "i", "t", "e", "d", " ", "s", "t", "a", "t", "e", "s">>,
       <<"m", "e", "x", "i", "c", "o">>,
       <<"b", "r", "a", "z", "i", "l">> >>

FOLLOW_UP_LEAD_IN ==
    <<"Could you provide the following details so I can give an accurate answer?">>
BULLET_MARKET ==
    <<"- Which market should I focus on (e.g., United States, Mexico)?">>
BULLET_CATEGORY ==
    <<"- Which product category is most relevant (e.g., pens, markers)?">>
BULLET_TIMEFRAME ==
    <<"- What timeframe should I consider (e.g., 2023 results, next 12 months)?">>

\* Variant: the category branch appends the market bullet.
FollowUpBullet_CategoryAsMarket(field) ==
    IF field = "market" THEN <<BULLET_MARKET>>
    ELSE IF field = "category" THEN <<BULLET_MARKET>>
    ELSE IF field = "timeframe" THEN <<BULLET_TIMEFRAME>>
    ELSE <<>>

\* The bullet the if / elif chain appends for one missing field.
FollowUpBullet(field) ==
    IF field = "market" THEN <<BULLET_MARKET>>
    ELSE IF field = "category" THEN <<BULLET_CATEGORY>>
    ELSE IF field = "timeframe" THEN <<BULLET_TIMEFRAME>>
    ELSE <<>>

RECURSIVE FollowUpBullets(_)
FollowUpBullets(missing) ==
    IF missing = <<>> THEN <<>>
    ELSE FollowUpBullet(Head(missing)) \o FollowUpBullets(Tail(missing))

\* not getattr(request, field)
FieldMissing(req, field) == ~Truthy(req[field])

MissingFields(req) ==
    SelectIdx(CRITICAL_PROMPT_FIELDS,
              [i \in DOMAIN CRITICAL_PROMPT_FIELDS |->
                  FieldMissing(req, CRITICAL_PROMPT_FIELDS[i])])

ensure_prompt_complete(req) ==
    LET missing == MissingFields(req)
    IN  IF missing = <<>>
        THEN [is_complete |-> TRUE, missing_fields |-> <<>>,
              follow_up_question |-> Null]
        ELSE [is_complete |-> FALSE, missing_fields |-> missing,
              follow_up_question |->
                  Str(Join(<<FOLLOW_UP_LEAD_IN>> \o FollowUpBullets(missing),
                           <<"\n">>))]

LABEL_EMPIRICAL == "empirical evidence"
LABEL_CONTEXTUAL == "contextual reference"
LABEL_UNSPECIFIED == "unspecified evidence"

\* " ".join([title, description, source_type]) of the lowercased fields
TextBlob(source) ==
    Join(<< Lower(OrText(Get(source.title), <<>>).v),
            Lower(OrText(Get(source.description), <<>>).v),
            Lower(OrText(Get(source.type), <<>>).v) >>, <<" ">>)

\* Variant: the contextual keywords are tried first.
_label_source_type_ContextualFirst(source) ==
    LET text_blob == TextBlob(source)
    IN  IF \E keyword \in CONTEXTUAL_KEYWORDS : Contains(text_blob, keyword)
        THEN LABEL_CONTEXTUAL
        ELSE IF \E keyword \in EMPIRICAL_KEYWORDS : Contains(text_blob, keyword)
        THEN LABEL_EMPIRICAL
        ELSE LABEL_UNSPECIFIED

_label_source_type(source) ==
    LET text_blob == TextBlob(source)
    IN  IF \E keyword \in EMPIRICAL_KEYWORDS : Contains(text_blob, keyword)
        THEN LABEL_EMPIRICAL
        ELSE IF \E keyword \in CONTEXTUAL_KEYWORDS : Contains(text_blob, keyword)
        THEN LABEL_CONTEXTUAL
        ELSE LABEL_UNSPECIFIED

\* Variant: an age of exactly 3.00 years counts as outdated.
IsOutdated_AtBoundary(age_years) ==
    age_years.defined /\ age_years.v # 0 /\ age_years.v >= 300

\* bool(age_years and age_years > 3)
IsOutdated(age_years) ==
    age_years.defined /\ age_years.v # 0 /\ age_years.v > 300

\* The GuardrailSourceFlag built from one raw source.
SourceFlag(src) ==
    LET age_years == compute_age_in_years(src.published_at)
    IN  [title |-> GetDefault(src.title, <<"View Source">>),
         url |-> GetDefault(src.url, <<>>),
         type |-> GetDefault(src.type, <<>>),
         description |-> GetDefault(src.description, <<>>),
         published_at |-> PubGet(src.published_at),
         age_in_years |-> age_years,
         is_outdated |-> IsOutdated(age_years),
         label |-> _label_source_type(src)]

\* _transform_sources raises when compute_age_in_years does, or when the
\* source list is None (iteration over None is a TypeError).
TransformRaises(sources) ==
    \/ sources.k = "null"
    \/ /\ sources.k = "list"
       /\ \E i \in DOMAIN sources.v : AgeRaises(sources.v[i].published_at)

\* Variant: the flags come out in reverse order.
_transform_sources_Reversed(sources) ==
    [i \in DOMAIN sources.v |-> SourceFlag(sources.v[Len(sources.v) + 1 - i])]

_transform_sources(sources) ==
    [i \in DOMAIN sources.v |-> SourceFlag(sources.v[i])]

TIER_NONE == "no direct evidence"
TIER_STRONG == "strong data"
TIER_LIMITED == "limited data"

SUMMARY_NONE ==
    <<"No supporting sources were returned. I can outline a typical approach but do not have data-backed findings.">>
SUMMARY_STRONG == <<"Multiple recent empirical sources support these findings.">>
SUMMARY_OUTDATED ==
    <<"Some sources may be outdated (>3 years old). Treat insights as directional only.">>
SUMMARY_SINGLE ==
    <<"Only a single or contextual source was identified. Consider validating with additional research.">>
\* (the source spells the apostrophe with a typographic quote)
FABRICATION_WARNING ==
    <<"I don't have enough evidence to answer directly. I can share a general framework if helpful.">>

\* Variant: two empirical sources are strong data whatever their age.
_compute_evidence_confidence_CountOnly(flags) ==
    LET empirical_sources ==
            SelectIdx(flags, [i \in DOMAIN flags |-> flags[i].label = LABEL_EMPIRICAL])
        outdated_sources ==
            SelectIdx(flags, [i \in DOMAIN flags |-> flags[i].is_outdated])
    IN  IF flags = <<>>
        THEN [tier |-> TIER_NONE, summary |-> SUMMARY_NONE,
              warning |-> Str(FABRICATION_WARNING)]
        ELSE IF Len(empirical_sources) >= 2
        THEN [tier |-> TIER_STRONG, summary |-> SUMMARY_STRONG, warning |-> Null]
        ELSE IF outdated_sources # <<>>
        THEN [tier |-> TIER_LIMITED, summary |-> SUMMARY_OUTDATED, warning |-> Null]
        ELSE [tier |-> TIER_LIMITED, summary |-> SUMMARY_SINGLE, warning |-> Null]

\* Variant: outdated sources carry the fabrication warning too.
_compute_evidence_confidence_WarnOutdated(flags) ==
    LET empirical_sources ==
            SelectIdx(flags, [i \in DOMAIN flags |-> flags[i].label = LABEL_EMPIRICAL])
        outdated_sources ==
            SelectIdx(flags, [i \in DOMAIN flags |-> flags[i].is_outdated])
    IN  IF flags = <<>>
        THEN [tier |-> TIER_NONE, summary |-> SUMMARY_NONE,
              warning |-> Str(FABRICATION_WARNING)]
        ELSE IF Len(empirical_sources) >= 2 /\ outdated_sources = <<>>
        THEN [tier |-> TIER_STRONG, summary |-> SUMMARY_STRONG, warning |-> Null]
        ELSE IF outdated_sources # <<>>
        THEN [tier |-> TIER_LIMITED, summary |-> SUMMARY_OUTDATED,
              warning |-> Str(FABRICATION_WARNING)]
        ELSE [tier |-> TIER_LIMITED, summary |-> SUMMARY_SINGLE, warning |-> Null]

_compute_evidence_confidence(flags) ==
    LET empirical_sources ==
            SelectIdx(flags, [i \in DOMAIN flags |-> flags[i].label = LABEL_EMPIRICAL])
        outdated_sources ==
            SelectIdx(flags, [i \in DOMAIN flags |-> flags[i].is_outdated])
    IN  IF flags = <<>>
        THEN [tier |-> TIER_NONE, summary |-> SUMMARY_NONE,
              warning |-> Str(FABRICATION_WARNING)]
        ELSE IF Len(empirical_sources) >= 2 /\ outdated_sources = <<>>
        THEN [tier |-> TIER_STRONG, summary |-> SUMMARY_STRONG, warning |-> Null]
        ELSE IF outdated_sources # <<>>
        THEN [tier |-> TIER_LIMITED, summary |-> SUMMARY_OUTDATED, warning |-> Null]
        ELSE [tier |-> TIER_LIMITED, summary |-> SUMMARY_SINGLE, warning |-> Null]

IsLetter(c) ==
    \E i \in DOMAIN LowerChars : LowerChars[i] = c \/ UpperChars[i] = c

\* str.title(): a letter is upper-cased after a non-letter, lower-cased after
\* a letter.
Title(s) ==
    [i \in DOMAIN s |->
        IF i = 1 \/ ~IsLetter(s[i - 1]) THEN UpperChar(s[i]) ELSE LowerChar(s[i])]

\* Variant: the market is compared as written, without lower().
_tiered_market_summary_CaseSensitive(req) ==
    IF ~Truthy(req.market)
    THEN <<"Market emphasis pending; awaiting clarification.">>
    ELSE IF \E i \in DOMAIN PRIORITY_MARKETS : PRIORITY_MARKETS[i] = req.market.v
    THEN <<"Prioritized ">> \o req.market.v
            \o <<" due to strategic focus. Secondary markets were referenced only when directly relevant.">>
    ELSE <<"Primary focus on ">> \o req.market.v
            \o <<". Higher-weight markets (">>
            \o Join([i \in DOMAIN PRIORITY_MARKETS |-> Title(PRIORITY_MARKETS[i])],
                    <<", ">>)
            \o <<") were deprioritized unless supporting data was available.">>

_tiered_market_summary(req) ==
    IF ~Truthy(req.market)
    THEN <<"Market emphasis pending; awaiting clarification.">>
    ELSE IF \E i \in DOMAIN PRIORITY_MARKETS : PRIORITY_MARKETS[i] = Lower(req.market.v)
    THEN <<"Prioritized ">> \o req.market.v
            \o <<" due to strategic focus. Secondary markets were referenced only when directly relevant.">>
    ELSE <<"Primary focus on ">> \o req.market.v
            \o <<". Higher-weight markets (">>
            \o Join([i \in DOMAIN PRIORITY_MARKETS |-> Title(PRIORITY_MARKETS[i])],
                    <<", ">>)
            \o <<") were deprioritized unless supporting data was available.">>

\* Variant: an absent field is rendered as the bare default, without the
\* "... focus: " prefix.
assess_guardrails_BareDefault(req, raw_sources) ==
    LET source_flags == _transform_sources(raw_sources)
        evidence == _compute_evidence_confidence(source_flags)
        Scope(prefix, value, default) ==
            IF Truthy(value) THEN <<prefix>> \o value.v ELSE <<default>>
    IN  [evidence_confidence |-> evidence.tier,
         evidence_summary |-> evidence.summary,
         market_scope |->
             Scope("In-market focus: ", req.market, "Market unspecified"),
         category_scope |->
             Scope("Category focus: ", req.category, "Category unspecified"),
         timeframe_scope |->
             Scope("Timeframe focus: ", req.timeframe, "Timeframe unspecified"),
         tiered_market_focus |-> _tiered_market_summary(req),
         fabrication_warning |-> evidence.warning,
         source_flags |-> source_flags]

\* assess_guardrails, when _transform_sources does not raise.
assess_guardrails(req, raw_sources) ==
    LET source_flags == _transform_sources(raw_sources)
        evidence == _compute_evidence_confidence(source_flags)
    IN  [evidence_confidence |-> evidence.tier,
         evidence_summary |-> evidence.summary,
         market_scope |->
             <<"In-market focus: ">> \o OrText(req.market, <<"Market unspecified">>).v,
         category_scope |->
             <<"Category focus: ">> \o OrText(req.category, <<"Category unspecified">>).v,
         timeframe_scope |->
             <<"Timeframe focus: ">> \o OrText(req.timeframe, <<"Timeframe unspecified">>).v,
         tiered_market_focus |-> _tiered_market_summary(req),
         fabrication_warning |-> evidence.warning,
         source_flags |-> source_flags]

(***************************************************************************)
(* services/azure_llm.py                                                   *)
(***************************************************************************)
\* The text a published_at string renders as.
PubText(p) == <<p.fmt, ToString(p.days)>>

\* parts: the lines of one numbered entry of the source catalogue.
CatalogueParts(idx, source) ==
    << <<ToString(idx), ". Title: ">> \o source.title.v,
       <<"   URL: ">> \o source.url.v,
       <<"   Classification: ", source.label>> >>
    \o (IF Truthy(source.description)
        THEN << <<"   Summary: ">> \o source.description.v >> ELSE <<>>)
    \o (IF PubTruthy(source.published_at)
        THEN << <<"   Published at: ">> \o PubText(source.published_at)
                \o (IF source.age_in_years.defined /\ source.age_in_years.v # 0
                    THEN <<" (approx. age: ", ToString(source.age_in_years.v),
                           "/100 years)">>
                    ELSE <<>>) >>
        ELSE <<>>)
    \o (IF source.is_outdated
        THEN << <<"   WARNING: Source older than 3 years.">> >> ELSE <<>>)

\* for idx, source in enumerate(sources, start=1)
CatalogueEntries(sources) ==
    [i \in DOMAIN sources |-> CatalogueParts(i, sources[i])]

format_sources(sources) ==
    LET entries == CatalogueEntries(sources)
        lines == [i \in DOMAIN entries |-> Join(entries[i], <<"\n">>)]
    IN  IF lines # <<>> THEN Join(lines, <<"\n">>)
        ELSE <<"No sources were returned.">>

\* sources_text of line 79, with the entries it was joined from.
SourceCatalogue(sources) ==
    [entries |-> CatalogueEntries(sources), text |-> format_sources(sources)]

\* synthesize_final_answer returns without contacting the provider.
SynthesisDisabled(cfg) == ~cfg.enable_azure_llm \/ ~cfg.client_configured

\* What synthesize_final_answer makes of the provider's completion.
CompletionResult(completion) ==
    IF ~completion.has_output THEN Null
    ELSE IF ~completion.has_content THEN Null
    ELSE IF completion.text.k = "str" THEN Str(Strip(completion.text.v))
    ELSE Null

(***************************************************************************)
(* services/stravito_client.py                                             *)
(***************************************************************************)
\* One source as extract_sources rewrites it.
ExtractedSource(src) ==
    [title |-> OrText(Get(src.title), <<"View Source">>),
     url |-> OrText(Get(src.url), <<>>),
     description |-> GetDefault(src.description, <<>>),
     type |-> GetDefault(src.type, <<>>),
     published_at |-> PubGet(src.published_at)]

extract_sources(payload) ==
    LET srcs == IF Truthy(payload.sources) THEN payload.sources.v ELSE <<>>
        kept == SelectIdx(srcs, [i \in DOMAIN srcs |-> Truthy(Get(srcs[i].url))])
    IN  [i \in DOMAIN kept |-> ExtractedSource(kept[i])]

\* (response_data.get("state") or "").upper()
PayloadState(payload) == Upper(OrText(Get(payload.state), <<>>).v)

ST_COMPLETED == <<"C", "O", "M", "P", "L", "E", "T", "E", "D">>
ST_FAILED == <<"F", "A", "I", "L", "E", "D">>
ST_ERROR == <<"E", "R", "R", "O", "R">>
ST_PROCESSING == <<"P", "R", "O", "C", "E", "S", "S", "I", "N", "G">>
ST_TIMEOUT == <<"T", "I", "M", "E", "O", "U", "T">>

\* The states on which get_message returns at once.
\* Variant: only COMPLETED ends the polling.
IsTerminal_CompletedOnly(state) == state = ST_COMPLETED

IsTerminal(state) == state = ST_COMPLETED \/ state \in {ST_FAILED, ST_ERROR}

WithSourcesExtracted(payload) ==
    [payload EXCEPT !.sources_extracted = List(extract_sources(payload))]

\* The payload get_message makes up when no poll ever succeeded.
TimeoutPayload ==
    [message_id |-> Absent, text |-> Absent, message |-> Str(<<>>),
     state |-> Str(ST_TIMEOUT), sources |-> List(<<>>),
     sources_extracted |-> Absent]

(***************************************************************************)
(* main.py                                                                 *)
(***************************************************************************)
DictPayload(d) == [k |-> "dict", d |-> d, s |-> <<>>]
StrPayload(s) == [k |-> "str", d |-> TimeoutPayload, s |-> s]

\* _extract_text for a dict payload
ExtractDictText(d) ==
    IF d.text.k = "str" /\ Strip(d.text.v) # <<>> THEN d.text.v
    ELSE IF Truthy(d.message) /\ d.message.k = "str" THEN d.message.v
    ELSE <<>>

\* _extract_text
_extract_text(payload) ==
    IF payload.k = "dict" THEN ExtractDictText(payload.d)
    ELSE IF payload.k = "str" THEN payload.s
    ELSE <<>>

\* api_response.get("message") or api_response
MessagePayload(api) ==
    IF api.message_is_dict THEN DictPayload(api.inner)
    ELSE IF Truthy(api.outer.message) /\ api.outer.message.k = "str"
    THEN StrPayload(api.outer.message.v)
    ELSE DictPayload(api.outer)

\* a or b
Or(a, b) == IF Truthy(a) THEN a ELSE b

\* message_payload.get("message_id") or ... or api_response.get("messageId"),
\* one key standing for each group of alternative spellings.
FirstMessageId(api, d) == Or(Get(d.message_id), Get(api.outer.message_id))

\* the fetch of line 103 is made
NeedsFetch(conv, mid, text, state) ==
    Truthy(conv) /\ Truthy(mid) /\ (text = <<>> \/ state # ST_COMPLETED)

NO_TEXT == <<"No response text returned from iHub.">>
APPROACH_LEAD_IN == <<"I can outline a general approach:\n">>
NEED_CONTEXT == <<"I need a bit more context before I can help.">>
PLEASE_CLARIFY == <<"Please clarify your request.">>

\* message_payload.get("sources_extracted") or message_payload.get("sources", [])
PayloadSources(d) ==
    IF Truthy(Get(d.sources_extracted)) THEN d.sources_extracted
    ELSE IF d.sources.k = "absent" THEN List(<<>>)
    ELSE d.sources

\* Variant: the fabrication warning wins over the synthesized text.
ComposeMessage_WarningFirst(final, assessment, text) ==
    IF Truthy(assessment.fabrication_warning)
    THEN assessment.fabrication_warning.v \o <<"\n\n">> \o APPROACH_LEAD_IN \o text
    ELSE IF Truthy(final) THEN final.v
    ELSE text

\* The message of lines 131-136.
ComposeMessage(final, assessment, text) ==
    IF Truthy(final) THEN final.v
    ELSE IF Truthy(assessment.fabrication_warning)
    THEN assessment.fabrication_warning.v \o <<"\n\n">> \o APPROACH_LEAD_IN \o text
    ELSE text

HTTP_502_BAD_GATEWAY == 502

BadGateway(detail) ==
    [kind |-> "error", status_code |-> HTTP_502_BAD_GATEWAY, detail |-> detail]

(***************************************************************************)
(* Inputs: the requests, the assistant backend's payloads and the          *)
(* provider's completions the model draws from.                            *)
(***************************************************************************)
Iso(d) == [k |-> "str", fmt |-> "iso", days |-> d]
IsoZ(d) == [k |-> "str", fmt |-> "isoZ", days |-> d]
MalformedPub == [k |-> "str", fmt |-> "malformed", days |-> 0]
EmptyPub == [k |-> "str", fmt |-> "empty", days |-> 0]
AbsentPub == [k |-> "absent", fmt |-> "", days |-> 0]
NumPub == [k |-> "num", fmt |-> "", days |-> 0]

Src(title, url, description, type, published_at) ==
    [title |-> title, url |-> url, description |-> description, type |-> type,
     published_at |-> published_at]

\* "Sales" / "quant", half a year old: empirical, recent.
SrcSales ==
    Src(Str(<<"S", "a", "l", "e", "s">>), Str(<<"u1">>), Absent,
        Str(<<"q", "u", "a", "n", "t">>), Iso(180))
\* "SURVEY", dated a month in the future with a trailing Z: empirical.
SrcSurvey ==
    Src(Str(<<"S", "U", "R", "V", "E", "Y">>), Str(<<"u2">>), Str(<<>>), Absent,
        IsoZ(-30))
\* "Brand Panel", 1097 days old (3.00 years): both keyword sets, not outdated.
SrcBrandPanel ==
    Src(Str(<<"B", "r", "a", "n", "d", " ", "P", "a", "n", "e", "l">>),
        Str(<<"u3">>), Absent, Str(<<>>), Iso(1097))
\* "POV", 1098 days old (3.01 years): contextual, outdated.
SrcPov ==
    Src(Str(<<"P", "O", "V">>), Str(<<"u4">>), Absent, Absent, Iso(1098))
\* No title, description "Q2", no date: unspecified.
SrcUntitled ==
    Src(Absent, Str(<<"u5">>), Str(<<"Q", "2">>), Absent, AbsentPub)

\* description "overview", a date that is not ISO-8601: contextual.
SrcMalformedDate ==
    Src(Str(<<"M", "e", "m", "o">>), Str(<<"u6">>),
        Str(<<"o", "v", "e", "r", "v", "i", "e", "w">>), Absent, MalformedPub)
\* a date that is a JSON number
SrcNumberDate ==
    Src(Str(<<"N", "o", "t", "e">>), Str(<<"u7">>), Absent, Absent, NumPub)
\* "Panel" published today, without a URL
SrcNoUrl ==
    Src(Str(<<"P", "a", "n", "e", "l">>), Absent, Absent, Absent, Iso(0))
\* type "strategy", date the empty string
SrcEmptyDate ==
    Src(Str(<<"D", "e", "c", "k">>), Str(<<"u8">>), Absent,
        Str(<<"s", "t", "r", "a", "t", "e", "g", "y">>), EmptyPub)
\* "Forecast", 1500 days old: empirical, outdated.
SrcOldForecast ==
    Src(Str(<<"F", "o", "r", "e", "c", "a", "s", "t">>), Str(<<"u9">>), Absent,
        Absent, Iso(1500))
\* title "Sal", description "es": no keyword in any one field.
SrcSplitWord ==
    Src(Str(<<"S", "a", "l">>), Str(<<"u10">>), Str(<<"e", "s">>), Absent,
        Iso(1096))

CorePool == {SrcSales, SrcSurvey, SrcBrandPanel, SrcPov, SrcUntitled}
EdgePool == {SrcMalformedDate, SrcNumberDate, SrcNoUrl, SrcEmptyDate,
             SrcOldForecast, SrcSplitWord}

MaxEdgeSources == 2

SourceLists == SeqUpTo(CorePool, MaxSources) \cup SeqUpTo(EdgePool, MaxEdgeSources)

ANSWER == <<"ANSWER">>
OTHER_ANSWER == <<"OTHER ANSWER">>
ID_C1 == Str(<<"c1">>)
ID_M1 == Str(<<"m1">>)

Body(message_id_, text, message, state, sources, sources_extracted) ==
    [message_id |-> message_id_, text |-> text, message |-> message,
     state |-> state, sources |-> sources,
     sources_extracted |-> sources_extracted]

StatePool ==
    {Absent, Str(ST_COMPLETED), Str(Lower(ST_COMPLETED)), Str(ST_PROCESSING),
     Str(ST_FAILED), Str(ST_ERROR), Str(<<"Q", "U", "E", "U", "E", "D">>)}

\* Every source list, in an answered, completed payload.
SourceBodies ==
    {Body(ID_M1, Str(ANSWER), Absent, Str(ST_COMPLETED), List(l), Absent) :
        l \in SourceLists}

\* Every shape of text, state and ids, over a few source lists.
ShapeBodies ==
    {Body(m, t, msg, st, srcs, Absent) :
        m \in {Absent, ID_M1},
        t \in {Absent, Str(<<" ">>), Str(ANSWER)},
        msg \in {Absent, Str(OTHER_ANSWER)},
        st \in StatePool,
        srcs \in {Absent, List(<<SrcSales, SrcSurvey>>), List(<<SrcNoUrl>>)}}

OddBodies ==
    {Body(ID_M1, Str(ANSWER), Absent, Str(ST_COMPLETED), Null, Absent),
     Body(ID_M1, Str(ANSWER), Absent, Str(ST_COMPLETED),
          List(<<SrcNoUrl, SrcSales>>), List(<<ExtractedSource(SrcSales)>>))}

\* The payloads of a first response.
Bodies == SourceBodies \cup ShapeBodies \cup OddBodies

\* The payloads of a poll: the answer under "message", in every state.
PollBodies ==
    {Body(m, Absent, msg, st, srcs, Absent) :
        m \in {Absent, ID_M1},
        msg \in {Str(<<>>), Str(ANSWER)},
        st \in StatePool,
        srcs \in {Absent, Null, List(<<>>), List(<<SrcSales, SrcSurvey>>),
                  List(<<SrcNoUrl>>), List(<<SrcNoUrl, SrcPov>>)}}

EmptyBody == Body(Absent, Absent, Absent, Absent, Absent, Absent)

Api(conv, message_is_dict, inner, outer) ==
    [conversation_id |-> conv, message_is_dict |-> message_is_dict,
     inner |-> inner, outer |-> outer]

ApiResponses ==
    {Api(ID_C1, FALSE, EmptyBody, b) : b \in Bodies}
    \cup {Api(c, TRUE, b, o) :
            c \in {Absent, ID_C1},
            b \in {Body(m, Str(ANSWER), Absent, st, List(<<SrcSales>>), Absent) :
                     m \in {Absent, ID_M1}, st \in {Absent, Str(ST_COMPLETED)}},
            o \in {EmptyBody, [EmptyBody EXCEPT !.message_id = ID_M1]}}
    \cup {Api(Absent, FALSE, EmptyBody, b) :
            b \in {Body(ID_M1, Str(ANSWER), Absent, Str(ST_COMPLETED),
                        List(<<SrcSales>>), Absent)}}

Completion(has_output, has_content, text) ==
    [has_output |-> has_output, has_content |-> has_content, text |-> text]

FINAL == <<"FINAL">>

Completions ==
    {Completion(FALSE, FALSE, Null), Completion(TRUE, FALSE, Null),
     Completion(TRUE, TRUE, Null), Completion(TRUE, TRUE, Num),
     Completion(TRUE, TRUE, Str(<<>>)), Completion(TRUE, TRUE, Str(<<" ", "\n">>)),
     Completion(TRUE, TRUE, Str(FINAL)),
     Completion(TRUE, TRUE, Str(<<" ">> \o FINAL \o <<"\n">>))}

MARKET_BRAZIL == <<"B", "r", "a", "z", "i", "l">>
MARKET_JAPAN == <<"J", "a", "p", "a", "n">>

Requests ==
    [message : {<<"QUESTION">>},
     market : {Null, Str(<<>>), Str(MARKET_BRAZIL), Str(MARKET_JAPAN)},
     category : {Null, Str(<<>>), Str(<<"markers">>)},
     timeframe : {Null, Str(<<>>), Str(<<"2024">>)},
     conversation_id : {Null, ID_C1}]

\* The process configuration: synthesis on or off (the client exists exactly
\* when it is on), and the poll ceiling.
Settings ==
    {[enable_azure_llm |-> e, client_configured |-> e,
      stravito_poll_max_retries |-> n] :
        <<e, n>> \in {<<TRUE, MaxRetries>>, <<FALSE, MaxRetries>>, <<FALSE, 0>>}}

(***************************************************************************)
(* The chat handler as a state machine.  A step runs chat_endpoint from    *)
(* one exchange with a collaborator to the next: the first call to the     *)
(* assistant backend, each poll of get_message, the call to the synthesis  *)
(* provider.                                                               *)
(***************************************************************************)
Init ==
    /\ settings \in Settings
    /\ request \in Requests
    /\ pc = "start"
    /\ conversation_id = Null
    /\ message_id = Null
    /\ message_payload = None
    /\ message_text = <<>>
    /\ retry_count = 0
    /\ response_data = None
    /\ guardrails = None
    /\ catalogue = None
    /\ final_text = None
    /\ response = None
    /\ calls = {}
    /\ polls = 0

\* raise HTTPException(502): ValueError and KeyError are reported as a
\* malformed response, everything else as a communication error.
Fail(detail) ==
    /\ pc' = "done"
    /\ response' = Some(BadGateway(detail))

\* Lines 112-122: the placeholder text, the choice of sources and
\* assess_guardrails, for the payload d.
Assess(conv, mid, d, text, made) ==
    LET sources == PayloadSources(d)
    IN  /\ conversation_id' = conv
        /\ message_id' = mid
        /\ message_payload' = Some(DictPayload(d))
        /\ message_text' = IF text = <<>> THEN NO_TEXT ELSE text
        /\ calls' = calls \cup made \cup {"assess_guardrails"}
        /\ IF TransformRaises(sources)
           THEN /\ guardrails' = None
                /\ Fail("Error communicating with iHub assistant")
           ELSE /\ guardrails' = Some(assess_guardrails(request, sources))
                /\ pc' = "synth"
                /\ response' = None

\* Lines 103-110: what chat_endpoint does with the payload get_message
\* returned, then Assess.
AfterGetMessage(latest, made) ==
    Assess(conversation_id, Or(Get(latest.message_id), message_id), latest,
           ExtractDictText(latest), made)

\* Lines 83-110, for the response of send_followup or create_conversation.
AfterFirstCall(api, conv, made) ==
    LET payload == MessagePayload(api)
        text == _extract_text(payload)
        mid == FirstMessageId(api, payload.d)
        state == PayloadState(payload.d)
    IN  IF payload.k = "str"
        THEN \* message_payload.get on a str: AttributeError
             /\ Fail("Error communicating with iHub assistant")
             /\ conversation_id' = conv
             /\ message_payload' = Some(payload)
             /\ message_text' = text
             /\ calls' = calls \cup made
             /\ UNCHANGED <<message_id, guardrails, retry_count, response_data>>
        ELSE IF ~NeedsFetch(conv, mid, text, state)
        THEN /\ Assess(conv, mid, payload.d, text, made)
             /\ UNCHANGED <<retry_count, response_data>>
        ELSE IF retry_count < settings.stravito_poll_max_retries
        THEN \* get_message enters its loop; message_payload and message_text
             \* are overwritten when it returns (lines 104-105), unread
             /\ pc' = "polling"
             /\ conversation_id' = conv
             /\ message_id' = mid
             /\ message_payload' = None
             /\ message_text' = <<>>
             /\ calls' = calls \cup made \cup {"get_message"}
             /\ UNCHANGED <<guardrails, response, retry_count, response_data>>
        ELSE \* get_message with no attempt to make: the TIMEOUT payload
             /\ Assess(conv, Or(Get(TimeoutPayload.message_id), mid),
                       WithSourcesExtracted(TimeoutPayload),
                       ExtractDictText(TimeoutPayload),
                       made \cup {"get_message"})
             /\ UNCHANGED <<retry_count, response_data>>

\* Lines 54-64: the prompt is incomplete.
ChatIncomplete ==
    LET prompt_status == ensure_prompt_complete(request)
    IN  /\ pc = "start"
        /\ ~prompt_status.is_complete
        /\ pc' = "done"
        /\ response' =
             Some([kind |-> "ok",
                   conversation_id |-> Null,
                   message_id |-> Null,
                   message |-> IF prompt_status.missing_fields # <<>>
                               THEN NEED_CONTEXT ELSE PLEASE_CLARIFY,
                   guardrails |-> None,
                   raw_sources |-> <<>>,
                   follow_up_needed |-> TRUE,
                   follow_up_prompt |-> prompt_status.follow_up_question])
        /\ UNCHANGED <<settings, request, conversation_id, message_id,
                       message_payload, message_text, retry_count, response_data,
                       guardrails, catalogue, final_text, calls, polls>>

\* The first call raised: a request error (RequestException) or a body that
\* is not JSON (a ValueError).
FirstCallRaises(made, detail) ==
    /\ Fail(detail)
    /\ calls' = calls \cup made
    /\ UNCHANGED <<conversation_id, message_id, message_payload, message_text,
                   retry_count, response_data, guardrails>>

FirstCallErrors ==
    {"Error communicating with iHub assistant",
     "Malformed response from iHub assistant"}

\* Lines 67-71 and on: a follow-up in an existing conversation.
SendFollowup ==
    /\ pc = "start"
    /\ ensure_prompt_complete(request).is_complete
    /\ Truthy(request.conversation_id)
    /\ \/ \E detail \in FirstCallErrors : FirstCallRaises({"send_followup"}, detail)
       \/ \E api \in ApiResponses :
            AfterFirstCall(api, request.conversation_id, {"send_followup"})
    /\ UNCHANGED <<settings, request, catalogue, final_text, polls>>

\* Lines 72-81 and on: a new conversation; its id comes from the response.
CreateConversation ==
    /\ pc = "start"
    /\ ensure_prompt_complete(request).is_complete
    /\ ~Truthy(request.conversation_id)
    /\ \/ \E detail \in FirstCallErrors :
            FirstCallRaises({"create_conversation"}, detail)
       \/ \E api \in ApiResponses :
            IF ~Truthy(Get(api.conversation_id))
            THEN \* raise ValueError("conversation_id missing from API response")
                 FirstCallRaises({"create_conversation"},
                                 "Malformed response from iHub assistant")
            ELSE AfterFirstCall(api, Get(api.conversation_id),
                                {"create_conversation"})
    /\ UNCHANGED <<settings, request, catalogue, final_text, polls>>

\* get_message: one poll that got a JSON payload.
PollSuccess ==
    /\ pc = "polling"
    /\ \E body \in PollBodies :
         LET state == PayloadState(body)
         IN  /\ polls' = polls + 1
             /\ IF IsTerminal(state)
                THEN /\ AfterGetMessage(WithSourcesExtracted(body), {})
                     /\ retry_count' = retry_count
                     /\ response_data' = Some(WithSourcesExtracted(body))
                ELSE IF retry_count + 1 < settings.stravito_poll_max_retries
                THEN /\ retry_count' = retry_count + 1
                     /\ response_data' = Some(body)
                     /\ UNCHANGED <<pc, conversation_id, message_id,
                                    message_payload, message_text, guardrails,
                                    response, calls>>
                ELSE \* the loop ends: the last payload is returned
                     /\ AfterGetMessage(WithSourcesExtracted(body), {})
                     /\ retry_count' = retry_count + 1
                     /\ response_data' = Some(WithSourcesExtracted(body))
    /\ UNCHANGED <<settings, request, catalogue, final_text>>

\* get_message: one poll that raised a RequestException.
PollError ==
    /\ pc = "polling"
    /\ polls' = polls + 1
    /\ retry_count' = retry_count + 1
    /\ IF retry_count + 1 >= settings.stravito_poll_max_retries
       THEN \* raise: chat_endpoint answers 502
            /\ Fail("Error communicating with iHub assistant")
            /\ UNCHANGED <<conversation_id, message_id, message_payload,
                           message_text, guardrails, calls>>
       ELSE UNCHANGED <<pc, conversation_id, message_id, message_payload,
                        message_text, guardrails, response, calls>>
    /\ UNCHANGED <<settings, request, response_data, catalogue, final_text>>

\* The ChatResponse of lines 139-145.
ChatResponse(final) ==
    [kind |-> "ok",
     conversation_id |-> conversation_id,
     message_id |-> message_id,
     message |-> ComposeMessage(final, guardrails.v, message_text),
     guardrails |-> guardrails,
     raw_sources |-> guardrails.v.source_flags,
     follow_up_needed |-> FALSE,
     follow_up_prompt |-> Null]

\* Lines 124-145: synthesize_final_answer, with synthesis off.
SynthesizeDisabled ==
    /\ pc = "synth"
    /\ SynthesisDisabled(settings)
    /\ final_text' = Some(Null)
    /\ calls' = calls \cup {"synthesize_final_answer"}
    /\ pc' = "done"
    /\ response' = Some(ChatResponse(Null))
    /\ UNCHANGED <<settings, request, conversation_id, message_id,
                   message_payload, message_text, retry_count, response_data,
                   guardrails, catalogue, polls>>

\* Lines 124-145: synthesize_final_answer, the provider returning a completion.
SynthesizeCompletion ==
    /\ pc = "synth"
    /\ ~SynthesisDisabled(settings)
    /\ \E completion \in Completions :
         /\ final_text' = Some(CompletionResult(completion))
         /\ response' = Some(ChatResponse(CompletionResult(completion)))
    /\ catalogue' = Some(SourceCatalogue(guardrails.v.source_flags))
    /\ calls' = calls \cup {"synthesize_final_answer", "provider"}
    /\ pc' = "done"
    /\ UNCHANGED <<settings, request, conversation_id, message_id,
                   message_payload, message_text, retry_count, response_data,
                   guardrails, polls>>

\* Lines 124-129 and 151-155: the provider call raised.
SynthesizeRaises ==
    /\ pc = "synth"
    /\ ~SynthesisDisabled(settings)
    /\ catalogue' = Some(SourceCatalogue(guardrails.v.source_flags))
    /\ calls' = calls \cup {"synthesize_final_answer", "provider"}
    /\ Fail("Error communicating with iHub assistant")
    /\ UNCHANGED <<settings, request, conversation_id, message_id,
                   message_payload, message_text, retry_count, response_data,
                   guardrails, final_text, polls>>

Next ==
    \/ ChatIncomplete
    \/ SendFollowup
    \/ CreateConversation
    \/ PollSuccess
    \/ PollError
    \/ SynthesizeDisabled
    \/ SynthesizeCompletion
    \/ SynthesizeRaises

Spec == Init /\ [][Next]_vars

(***************************************************************************)
(* assess_guardrails on its own: the handler only reaches it with a        *)
(* complete prompt, the function itself accepts any ChatRequest.           *)
(***************************************************************************)
MARKET_MEXICO_UPPER == <<"M", "E", "X", "I", "C", "O">>
MARKET_US_LOWER ==
    <<"u", "n", "i", "t", "e", "d", " ", "s", "t", "a", "t", "e", "s">>

GuardrailRequests ==
    [message : {<<"QUESTION">>},
     market : {Null, Str(<<>>), Str(MARKET_BRAZIL), Str(MARKET_MEXICO_UPPER),
               Str(MARKET_US_LOWER), Str(MARKET_JAPAN)},
     category : {Null, Str(<<>>), Str(<<"markers">>)},
     timeframe : {Null, Str(<<>>), Str(<<"2024">>)},
     conversation_id : {Null}]

GuardrailSourceLists == {<<>>, <<SrcSales>>, <<SrcSales, SrcSurvey>>}

InitGuardrails ==
    /\ settings \in Settings
    /\ request \in GuardrailRequests
    /\ pc = "start"
    /\ conversation_id = Null
    /\ message_id = Null
    /\ message_payload = None
    /\ message_text = <<>>
    /\ retry_count = 0
    /\ response_data = None
    /\ guardrails = None
    /\ catalogue = None
    /\ final_text = None
    /\ response = None
    /\ calls = {}
    /\ polls = 0

\* One call of assess_guardrails(request, raw_sources).
AssessGuardrails ==
    /\ pc = "start"
    /\ \E raw_sources \in GuardrailSourceLists :
         guardrails' = Some(assess_guardrails(request, List(raw_sources)))
    /\ calls' = calls \cup {"assess_guardrails"}
    /\ pc' = "assessed"
    /\ UNCHANGED <<settings, request, conversation_id, message_id,
                   message_payload, message_text, retry_count, response_data,
                   catalogue, final_text, response, polls>>

NextGuardrails == AssessGuardrails

SpecGuardrails == InitGuardrails /\ [][NextGuardrails]_vars

(***************************************************************************)
(* Properties.                                                             *)
(***************************************************************************)
\* The raw source list chat_endpoint handed to assess_guardrails.
RawSources == PayloadSources(message_payload.v.d).v

Assessed == guardrails.some

EmpiricalCount(flags) ==
    Cardinality({i \in DOMAIN flags : flags[i].label = "empirical evidence"})

AnyOutdated(flags) == \E i \in DOMAIN flags : flags[i].is_outdated

\* C1: for a non-empty flag list the tier is "strong data" exactly when at
\* least two flags are empirical and none is outdated, and "limited data"
\* otherwise; with any outdated flag the summary is the outdated-sources text.
C1_EvidenceTier ==
    Assessed /\ guardrails.v.source_flags # <<>> =>
        LET g == guardrails.v
            flags == g.source_flags
            strong == EmpiricalCount(flags) >= 2 /\ ~AnyOutdated(flags)
        IN  /\ (g.evidence_confidence = "strong data") <=> strong
            /\ ~strong => g.evidence_confidence = "limited data"
            /\ AnyOutdated(flags) =>
                 g.evidence_summary =
                   <<"Some sources may be outdated (>3 years old). Treat insights as directional only.">>

\* Two empirical sources and an outdated one were assessed as limited data.
C1_Witness ==
    /\ Assessed
    /\ Len(guardrails.v.source_flags) = 3
    /\ EmpiricalCount(guardrails.v.source_flags) = 2
    /\ AnyOutdated(guardrails.v.source_flags)
    /\ guardrails.v.evidence_confidence = "limited data"

\* C2: the assessment carries a fabrication warning exactly when the raw
\* source list is empty, and is "no direct evidence" exactly then.
C2_WarningIffEmpty ==
    Assessed =>
        /\ (guardrails.v.fabrication_warning.k # "null") <=> (RawSources = <<>>)
        /\ (guardrails.v.evidence_confidence = "no direct evidence")
              <=> (RawSources = <<>>)

\* Outdated sources alone were assessed, without a warning.
C2_Witness ==
    /\ Assessed
    /\ RawSources # <<>>
    /\ \A i \in DOMAIN guardrails.v.source_flags :
          guardrails.v.source_flags[i].is_outdated
    /\ guardrails.v.fabrication_warning.k = "null"

Blank(x) == x = Null \/ x = Str(<<>>)

Incomplete(req) ==
    Blank(req.market) \/ Blank(req.category) \/ Blank(req.timeframe)

\* C3: a request missing market, category or timeframe is answered with the
\* follow-up response (no guardrails, no sources, one of the two fixed
\* sentences), and no collaborator, assess_guardrails or
\* synthesize_final_answer is ever called for it.
C3_IncompleteShortCircuits ==
    Incomplete(request) =>
        /\ calls = {}
        /\ polls = 0
        /\ ~guardrails.some
        /\ pc \in {"start", "done"}
        /\ pc = "done" =>
             /\ response.v.kind = "ok"
             /\ response.v.follow_up_needed
             /\ ~response.v.guardrails.some
             /\ response.v.raw_sources = <<>>
             /\ response.v.message \in
                  {<<"I need a bit more context before I can help.">>,
                   <<"Please clarify your request.">>}

\* A request with market and timeframe but no category got its response.
C3_Witness ==
    /\ pc = "done"
    /\ ~Blank(request.market) /\ Blank(request.category)
    /\ ~Blank(request.timeframe)
    /\ response.v.follow_up_needed

\* The follow-up question the specification describes for a request.
ExpectedFollowUp(req) ==
    <<"Could you provide the following details so I can give an accurate answer?">>
    \o (IF Blank(req.market)
        THEN <<"\n", "- Which market should I focus on (e.g., United States, Mexico)?">>
        ELSE <<>>)
    \o (IF Blank(req.category)
        THEN <<"\n", "- Which product category is most relevant (e.g., pens, markers)?">>
        ELSE <<>>)
    \o (IF Blank(req.timeframe)
        THEN <<"\n", "- What timeframe should I consider (e.g., 2023 results, next 12 months)?">>
        ELSE <<>>)

ExpectedMissing(req) ==
    (IF Blank(req.market) THEN <<"market">> ELSE <<>>)
    \o (IF Blank(req.category) THEN <<"category">> ELSE <<>>)
    \o (IF Blank(req.timeframe) THEN <<"timeframe">> ELSE <<>>)

\* C4: ensure_prompt_complete is complete exactly when all three fields are
\* present and non-empty; then there are no missing fields and no question;
\* otherwise the missing fields and the bullets of the question are the
\* missing ones in the order market, category, timeframe.
C4_PromptStatus ==
    LET prompt_status == ensure_prompt_complete(request)
    IN  /\ prompt_status.is_complete <=> ~Incomplete(request)
        /\ prompt_status.missing_fields = ExpectedMissing(request)
        /\ prompt_status.is_complete => prompt_status.follow_up_question = Null
        /\ ~prompt_status.is_complete =>
             prompt_status.follow_up_question = Str(ExpectedFollowUp(request))
        /\ pc = "done" /\ Incomplete(request) =>
             response.v.follow_up_prompt = Str(ExpectedFollowUp(request))

\* A request missing market and timeframe only was asked for exactly those.
C4_Witness ==
    /\ pc = "done"
    /\ Blank(request.market) /\ ~Blank(request.category) /\ Blank(request.timeframe)
    /\ Len(response.v.follow_up_prompt.v) = 5

Answered == pc = "done" /\ response.v.kind = "ok" /\ guardrails.some

\* C5: the final message is the synthesized text when synthesis returned a
\* non-empty one; otherwise the warning, the fixed lead-in and the assistant
\* answer when there is a fabrication warning; otherwise the assistant answer.
C5_FinalMessage ==
    Answered =>
        LET final == final_text.v
            warning == guardrails.v.fabrication_warning
        IN  response.v.message =
              IF final.k = "str" /\ final.v # <<>> THEN final.v
              ELSE IF warning.k # "null"
              THEN warning.v \o <<"\n\n", "I can outline a general approach:\n">>
                     \o message_text
              ELSE message_text

\* Synthesis returned a text although a fabrication warning exists.
C5_Witness ==
    /\ Answered
    /\ guardrails.v.fabrication_warning.k # "null"
    /\ final_text.v.k = "str" /\ final_text.v.v # <<>>
    /\ response.v.message = final_text.v.v

\* C6: a flag is outdated exactly when its age is defined and above 3.00
\* years, ages being hundredths of a year.
C6_OutdatedBoundary ==
    Assessed =>
        \A i \in DOMAIN guardrails.v.source_flags :
            LET f == guardrails.v.source_flags[i]
            IN  /\ f.is_outdated <=> (f.age_in_years.defined /\ f.age_in_years.v > 300)
                /\ LET p == RawSources[i].published_at
                   IN  /\ p.k = "str" /\ p.fmt = "iso" /\ p.days = 1097 =>
                            f.age_in_years = Age(300) /\ ~f.is_outdated
                       /\ p.k = "str" /\ p.fmt = "iso" /\ p.days = 1098 =>
                            f.age_in_years = Age(301) /\ f.is_outdated
                       /\ p.k # "str" \/ p.fmt \notin {"iso", "isoZ"} \/ p.days <= 0 =>
                            ~f.is_outdated

\* A source aged exactly 3.00 years and one aged 3.01 years were flagged.
C6_Witness ==
    /\ Assessed
    /\ \E i, j \in DOMAIN guardrails.v.source_flags :
          LET f == guardrails.v.source_flags[i]
              h == guardrails.v.source_flags[j]
          IN  /\ f.age_in_years = Age(300) /\ ~f.is_outdated
              /\ h.age_in_years = Age(301) /\ h.is_outdated

\* published_at is absent, or a value that is no ISO-8601 timestamp.
Unparsable(p) == p.k # "str" \/ p.fmt \notin {"iso", "isoZ"}

\* C7: a source whose published_at is absent or cannot be parsed is flagged
\* with no age and not outdated, and assess_guardrails does not fail on it.
C7_MalformedTimestampRecovered ==
    /\ "assess_guardrails" \in calls
    /\ PayloadSources(message_payload.v.d).k = "list"
    =>  /\ Assessed
        /\ \A i \in DOMAIN RawSources :
              Unparsable(RawSources[i].published_at) =>
                  /\ guardrails.v.source_flags[i].age_in_years = NoAge
                  /\ ~guardrails.v.source_flags[i].is_outdated

\* The text of one field as _label_source_type reads it.
FieldText(x) == IF x.k = "str" THEN Lower(x.v) ELSE <<>>

\* Some field of the source holds one of the keywords.
HasKeyword(src, keywords) ==
    \E x \in {src.title, src.description, src.type} :
        \E keyword \in keywords : Contains(FieldText(x), keyword)

ExpectedLabel(src) ==
    IF HasKeyword(src, EMPIRICAL_KEYWORDS) THEN "empirical evidence"
    ELSE IF HasKeyword(src, CONTEXTUAL_KEYWORDS) THEN "contextual reference"
    ELSE "unspecified evidence"

\* C8: a flag's label is "empirical evidence" when the lowercased title,
\* description or type holds an empirical keyword, else "contextual
\* reference" when one holds a contextual keyword, else "unspecified
\* evidence"; sources with the same three texts get the same label wherever
\* they stand.
C8_LabelByKeywords ==
    Assessed =>
        LET flags == guardrails.v.source_flags
        IN  /\ \A i \in DOMAIN flags : flags[i].label = ExpectedLabel(RawSources[i])
            /\ \A i, j \in DOMAIN flags :
                  /\ FieldText(RawSources[i].title) = FieldText(RawSources[j].title)
                  /\ FieldText(RawSources[i].description)
                        = FieldText(RawSources[j].description)
                  /\ FieldText(RawSources[i].type) = FieldText(RawSources[j].type)
                  => flags[i].label = flags[j].label

\* A source with both an empirical and a contextual keyword was labelled
\* empirical, behind a source labelled otherwise.
C8_Witness ==
    /\ Assessed
    /\ \E i, j \in DOMAIN guardrails.v.source_flags :
          /\ i < j
          /\ HasKeyword(RawSources[j], EMPIRICAL_KEYWORDS)
          /\ HasKeyword(RawSources[j], CONTEXTUAL_KEYWORDS)
          /\ guardrails.v.source_flags[j].label = "empirical evidence"
          /\ guardrails.v.source_flags[i].label = "contextual reference"

\* C9: the flags are as many as the raw sources and the i-th flag carries the
\* i-th source's fields; the catalogue rendered for synthesis has one entry
\* per flag, the k-th numbered k and naming the k-th flag.
C9_OrderPreserved ==
    Assessed =>
        LET flags == guardrails.v.source_flags
        IN  /\ Len(flags) = Len(RawSources)
            /\ \A i \in DOMAIN flags :
                  /\ flags[i].url = GetDefault(RawSources[i].url, <<>>)
                  /\ flags[i].title = GetDefault(RawSources[i].title, <<"View Source">>)
                  /\ flags[i].published_at = PubGet(RawSources[i].published_at)
            /\ catalogue.some =>
                  /\ Len(catalogue.v.entries) = Len(flags)
                  /\ \A k \in DOMAIN flags :
                        /\ catalogue.v.entries[k][1]
                             = <<ToString(k), ". Title: ">> \o flags[k].title.v
                        /\ catalogue.v.entries[k][2]
                             = <<"   URL: ">> \o flags[k].url.v

\* Three different sources were flagged and catalogued.
C9_Witness ==
    /\ Assessed
    /\ catalogue.some
    /\ Len(RawSources) = 3
    /\ RawSources[1].url # RawSources[2].url
    /\ RawSources[2].url # RawSources[3].url
    /\ RawSources[1].url # RawSources[3].url

\* C10: synthesize_final_answer returns None or a non-empty string, never an
\* empty one; None without a provider call when synthesis is off.
C10_NeverEmptyString ==
    final_text.some =>
        /\ final_text.v = Null \/ (final_text.v.k = "str" /\ final_text.v.v # <<>>)
        /\ SynthesisDisabled(settings) =>
             final_text.v = Null /\ "provider" \notin calls

\* The handler answered 502 out of assess_guardrails: no collaborator was
\* being called.
FailedInCore ==
    /\ pc = "done"
    /\ response.v.kind = "error"
    /\ "assess_guardrails" \in calls
    /\ ~Assessed

\* C11: every failure response is the one HTTP 502 category, and it comes
\* from a collaborator step (first call, missing conversation id, get_message,
\* synthesis call); incomplete prompts, malformed timestamps, empty or absent
\* source lists and unavailable synthesis end in a normal response.
C11_OnlyCollaboratorFailures ==
    /\ pc = "done" /\ response.v.kind = "error" => response.v.status_code = 502
    /\ ~FailedInCore
    /\ pc = "done" /\ Incomplete(request) => response.v.kind = "ok"
    /\ pc = "done" /\ final_text.some => response.v.kind = "ok"

\* The scope string the claim describes: "<Field> focus: <value>" when the
\* field is present, "<Field> unspecified" when it is absent.
ClaimedScope(field_name, value) ==
    IF Truthy(value) THEN <<field_name \o " focus: ">> \o value.v
    ELSE <<field_name \o " unspecified">>

\* The scope string of assess_guardrails: the prefix, then the value or the
\* field's default.
PrefixedScope(prefix, value, default) ==
    <<prefix>> \o (IF Truthy(value) THEN value.v ELSE <<default>>)

\* C12 as stated: each of market, category and timeframe is rendered as
\* "<Field> focus: <value>" when present and as "<Field> unspecified" when
\* absent.
C12_ScopeAsStated ==
    Assessed =>
        /\ guardrails.v.market_scope = ClaimedScope("Market", request.market)
        /\ guardrails.v.category_scope = ClaimedScope("Category", request.category)
        /\ guardrails.v.timeframe_scope = ClaimedScope("Timeframe", request.timeframe)

\* C12 amended: the market scope is "In-market focus: " and the category and
\* timeframe scopes are "Category focus: " and "Timeframe focus: ", each
\* followed by the field's value when it is present and by "Market
\* unspecified", "Category unspecified" or "Timeframe unspecified" when it is
\* absent or empty.
C12_ScopeStrings ==
    Assessed =>
        /\ guardrails.v.market_scope =
             PrefixedScope("In-market focus: ", request.market, "Market unspecified")
        /\ guardrails.v.category_scope =
             PrefixedScope("Category focus: ", request.category, "Category unspecified")
        /\ guardrails.v.timeframe_scope =
             PrefixedScope("Timeframe focus: ", request.timeframe, "Timeframe unspecified")

C12_Witness ==
    /\ Assessed
    /\ ~Truthy(request.market)
    /\ Truthy(request.category)
    /\ request.timeframe = Null
    /\ guardrails.v.market_scope = <<"In-market focus: ", "Market unspecified">>
    /\ guardrails.v.category_scope = <<"Category focus: ", "markers">>
    /\ guardrails.v.timeframe_scope = <<"Timeframe focus: ", "Timeframe unspecified">>

\* "United States, Mexico, Brazil", character by character around the two
\* separators.
PRIORITY_LISTING ==
    <<"U", "n", "i", "t", "e", "d", " ", "S", "t", "a", "t", "e", "s", ", ",
      "M", "e", "x", "i", "c", "o", ", ", "B", "r", "a", "z", "i", "l">>

\* The priority markets as the claim names them, in lower case.
IsPriorityMarket(lowered) ==
    lowered \in {<<"u", "n", "i", "t", "e", "d", " ", "s", "t", "a", "t", "e", "s">>,
                 <<"m", "e", "x", "i", "c", "o">>,
                 <<"b", "r", "a", "z", "i", "l">>}

\* C13: the tiered narrative is the "pending" text when the market is unset;
\* the "prioritized" text naming the request's market when the market, in any
\* letter case, is united states, mexico or brazil; otherwise the
\* "deprioritized" text naming the request's market and listing United
\* States, Mexico, Brazil in that order.
C13_TieredNarrative ==
    Assessed =>
        guardrails.v.tiered_market_focus =
            IF ~Truthy(request.market)
            THEN <<"Market emphasis pending; awaiting clarification.">>
            ELSE IF IsPriorityMarket(Lower(request.market.v))
            THEN <<"Prioritized ">> \o request.market.v
                 \o <<" due to strategic focus. Secondary markets were referenced only when directly relevant.">>
            ELSE <<"Primary focus on ">> \o request.market.v
                 \o <<". Higher-weight markets (">> \o PRIORITY_LISTING
                 \o <<") were deprioritized unless supporting data was available.">>

C13_Witness ==
    /\ Assessed
    /\ request.market = Str(MARKET_MEXICO_UPPER)
    /\ guardrails.v.tiered_market_focus[1] = "Prioritized "
    /\ SubSeq(guardrails.v.tiered_market_focus, 2, 7) = MARKET_MEXICO_UPPER

\* The poll ceiling get_message runs under.
PollCeiling == settings.stravito_poll_max_retries

\* While get_message is in its loop: every poll made so far consumed one
\* attempt, an attempt is left, and no poll so far saw COMPLETED, FAILED or
\* ERROR.  Always: no more polls than the ceiling.
PollBudget ==
    /\ polls <= PollCeiling
    /\ pc = "polling" =>
         /\ polls = retry_count
         /\ retry_count < PollCeiling
         /\ response_data.some =>
              PayloadState(response_data.v) \notin {ST_COMPLETED, ST_FAILED, ST_ERROR}
    /\ pc # "polling" => polls \in {retry_count, retry_count + 1}

\* A step taken inside get_message's loop either leaves the loop or uses up
\* one attempt with one HTTP request.
PollStep ==
    pc = "polling" =>
        \/ pc' # "polling" /\ polls' = polls + 1
        \/ retry_count' = retry_count + 1 /\ polls' = polls + 1

\* C14: get_message makes at most max_retries HTTP requests, every poll
\* (answered or failed) consumes exactly one attempt, and the first poll that
\* reports COMPLETED, FAILED or ERROR ends it; the attempts left decrease
\* with every poll that stays in the loop, so the loop ends.
C14_PollingTerminates ==
    /\ []PollBudget
    /\ [][PollStep]_vars

C14_Witness ==
    /\ pc # "polling"
    /\ "get_message" \in calls
    /\ PollCeiling >= 2
    /\ polls = PollCeiling
    /\ message_payload.some
    /\ PayloadState(message_payload.v.d) = ST_PROCESSING

\* get_message gave chat_endpoint a payload (main.py 103-105).
GetMessageReturned == "get_message" \in calls /\ message_payload.some

\* C15: when get_message runs out of attempts without a terminal state it
\* returns the last successful poll's response as data instead of raising,
\* also when an earlier poll succeeded in a non-terminal state and the final
\* attempt failed with a request error.
C15_ExhaustionReturnsLastPoll ==
    /\ pc \in {"synth", "done"}
    /\ "get_message" \in calls
    /\ retry_count >= PollCeiling
    /\ response_data.some
    => /\ GetMessageReturned
       /\ message_payload.v.d.state = response_data.v.state
       /\ message_payload.v.d.message = response_data.v.message
       /\ message_payload.v.d.sources_extracted.k = "list"

\* The payload get_message returned is not a completed answer: FAILED, ERROR,
\* TIMEOUT, or a state still in progress when the attempts ran out.
ReturnedUnfinished ==
    /\ pc \in {"synth", "done"}
    /\ GetMessageReturned
    /\ PayloadState(message_payload.v.d) # ST_COMPLETED

\* C16: a payload that get_message returns in FAILED, ERROR, TIMEOUT or a
\* still-processing state is treated as data: its text, or the placeholder
\* when it has none, is the answer, its sources are assessed, and the handler
\* answers normally, not with a 502 (unless the synthesis provider call
\* raises afterwards).
C16_UnfinishedPayloadIsData ==
    ReturnedUnfinished =>
        /\ Assessed
        /\ message_text \in {message_payload.v.d.message.v, NO_TEXT}
        /\ message_text # <<>>
        /\ pc = "done" =>
             \/ response.v.kind = "ok"
             \/ "provider" \in calls /\ ~final_text.some

\* The URL-filtered list get_message attached to the payload.
SourcesExtracted == message_payload.v.d.sources_extracted

\* C17: when the payload carries a sources_extracted list, assess_guardrails
\* gets exactly that URL-filtered list: one flag per extracted source, in
\* order, none without a URL; a payload whose sources all lack a URL is
\* assessed as "no direct evidence" with the fabrication warning.
C17_OnlyExtractedSourcesAssessed ==
    /\ pc \in {"synth", "done"}
    /\ message_payload.some
    /\ message_payload.v.k = "dict"
    /\ SourcesExtracted.k = "list"
    /\ "assess_guardrails" \in calls
    => /\ Assessed
       /\ Len(guardrails.v.source_flags) = Len(SourcesExtracted.v)
       /\ \A i \in DOMAIN guardrails.v.source_flags :
            /\ Truthy(guardrails.v.source_flags[i].url)
            /\ guardrails.v.source_flags[i].url = SourcesExtracted.v[i].url
       /\ SourcesExtracted.v = <<>> =>
            /\ guardrails.v.evidence_confidence = "no direct evidence"
            /\ Truthy(guardrails.v.fabrication_warning)

====
